---------------------------- MODULE Spec2Model ----------------------------
(***************************************************************************)
(* A model of src/pcf_downloader.py: one run of main() / PCFDownloader.    *)
(* process, and its pure parts parse_pcf_excel, compare_pcf_data,          *)
(* save_comparison_result and get_previous_business_day.                   *)
(*                                                                         *)
(* Representation.                                                         *)
(*  - A Python str is a sequence of characters.  The CJK literals of the   *)
(*    source are written one token per character in pinyin (TLA+ strings   *)
(*    are ASCII): '股票代號' is <<"gu","piao","dai","hao">>, '現金' is     *)
(*    <<"xian","jin">>, '合計' is <<"he","ji">>.  The two display labels   *)
(*    "新增" and "清倉" are the atoms "NEW" and "LIQUIDATED".              *)
(*  - A spreadsheet cell is Str(s) or NaN (an empty cell, pd.isna).        *)
(*  - A date is its proleptic Gregorian ordinal (datetime.toordinal()), so *)
(*    weekday() is (ordinal + 6) % 7 and timedelta(days=1) is 1.           *)
(*  - A share percentage and a weight delta are kept in hundredths (the    *)
(*    code rounds both to 2 decimals); a weight is kept in thousandths of  *)
(*    a percent, so that rounding it to 2 decimals is not the identity.    *)
(*  - Optional[...] is None or Some(v).                                    *)
(***************************************************************************)
EXTENDS Integers, Sequences, FiniteSets, TLC

VARIABLES
    pc,                     \* position of the run inside main()/process()
    date,                   \* args.date: Some(ordinal), or None if unparseable
    current_date,           \* find_and_download_previous_day: current_date
    prev_date,              \* find_and_download_previous_day: prev_date
    attempt,                \* find_and_download_previous_day: attempts finished
    response,               \* download_pcf_excel: the answer to its latest GET
    fetchLog,               \* history: every session.get issued, in order
    current_excel_content,  \* process: Optional grid of the requested date
    prev_excel_content,     \* process: Optional grid of the previous day
    current_df,             \* process: parsed table of the requested date
    previous_df,            \* process: parsed table of the previous day
    comparison_df,          \* process: result of compare_pcf_data
    output_file,            \* the report under output/: None or Some(sheet)
    steps,                  \* history: the steps of process() that started
    exit_code,              \* None while running, else Some(0) / Some(1)
    output_dir,             \* os.makedirs("output") has succeeded
    comparison_file         \* main: the path process() returned, if any

vars == <<pc, date, current_date, prev_date, attempt, response, fetchLog,
          current_excel_content, prev_excel_content, current_df, previous_df,
          comparison_df, output_file, steps, exit_code, output_dir,
          comparison_file>>

None == [ok |-> FALSE]
Some(v) == [ok |-> TRUE, val |-> v]

(***************************************************************************)
(* Bounds of the model.                                                    *)
(***************************************************************************)
MaxShares == 3      \* share counts range over 0..MaxShares
MaxRows == 2        \* rows of the two tables handed to compare, together

-----------------------------------------------------------------------------
(***************************************************************************)
(* compare_pcf_data                                                        *)
(***************************************************************************)
Codes == {<<"1","1","0","1">>, <<"2","3","3","0">>}
Names == {<<"A">>, <<"B">>}
Weights == {1250, 2004}         \* 1.25 and 2.004 (thousandths of a percent)

Holding(c, n, s, w) == [code |-> c, name |-> n, shares |-> s, weight |-> w]

\* A display value of the column '股數變化(%)': a label or a number.
Label(l) == [label |-> l, num |-> 0]
Numeric(v) == [label |-> "num", num |-> v]
NewLabel == Label("NEW")
LiquidatedLabel == Label("LIQUIDATED")

\* n/d rounded to the nearest integer (d > 0).  Python's round() decides an
\* exact tie by the binary value of the float; the bounds admit no tie.
RoundDivFloor(n, d) == n \div d
RoundDiv(n, d) == (2 * n + d) \div (2 * d)

\* dict built by the loops over iterrows(): a later row replaces an earlier one.
Keys(df) == {df[i].code : i \in 1..Len(df)}
LastIndex(df, c) == CHOOSE i \in 1..Len(df) :
    /\ df[i].code = c
    /\ \A j \in (i + 1)..Len(df) : df[j].code # c
DictOf(df) == [c \in Keys(df) |-> df[LastIndex(df, c)]]

AllStockCodes(cur, prev) == Keys(cur) \cup Keys(prev)

\* shares_change: a float, always a whole multiple of 1/prev here, or inf.
SharesChangeNoNew(cur_shares, prev_shares) ==
    IF prev_shares # 0
    THEN [inf |-> FALSE, n |-> (cur_shares - prev_shares) * 100, d |-> prev_shares]
    ELSE [inf |-> cur_shares >= 0, n |-> 0, d |-> 1]
SharesChange(cur_shares, prev_shares) ==
    IF prev_shares # 0
    THEN [inf |-> FALSE, n |-> (cur_shares - prev_shares) * 100, d |-> prev_shares]
    ELSE [inf |-> cur_shares > 0, n |-> 0, d |-> 1]

\* The if / elif / else that chooses the displayed percentage and the
\* absolute change.
ShareDisplay(cur_shares, prev_shares) ==
    LET sc == SharesChange(cur_shares, prev_shares) IN
    IF sc.inf
    THEN [pct |-> NewLabel, delta |-> cur_shares]
    ELSE IF sc.n = 0 /\ cur_shares = 0 /\ prev_shares > 0
    THEN [pct |-> LiquidatedLabel, delta |-> 0 - prev_shares]
    ELSE [pct |-> Numeric(RoundDiv(sc.n * 100, sc.d)),
          delta |-> cur_shares - prev_shares]

\* One pass of the loop over all_stock_codes.
CompareRow(c, current_dict, prev_dict) ==
    LET inCur == c \in DOMAIN current_dict
        inPrev == c \in DOMAIN prev_dict
        current_shares == IF inCur THEN current_dict[c].shares ELSE 0
        current_weight == IF inCur THEN current_dict[c].weight ELSE 0
        stock_name == IF inCur THEN current_dict[c].name ELSE prev_dict[c].name
        prev_shares == IF inPrev THEN prev_dict[c].shares ELSE 0
        prev_weight == IF inPrev THEN prev_dict[c].weight ELSE 0
        disp == ShareDisplay(current_shares, prev_shares)
    IN  [code |-> c, name |-> stock_name,
         shares |-> current_shares, weight |-> current_weight,
         prev_shares |-> prev_shares, prev_weight |-> prev_weight,
         shares_delta |-> disp.delta,
         shares_delta_pct |-> disp.pct,
         weight_delta_pct |-> RoundDiv(current_weight - prev_weight, 10)]

\* sort_values(['持股權重', '前日持股權重'], ascending=[False, False]): a
\* stable sort, descending on both keys.
Before(a, b) ==
    \/ a.weight > b.weight
    \/ a.weight = b.weight /\ a.prev_weight > b.prev_weight

RECURSIVE InsertStable(_, _)
InsertStable(sorted, r) ==
    IF sorted = <<>> THEN <<r>>
    ELSE IF Before(r, Head(sorted)) THEN <<r>> \o sorted
    ELSE <<Head(sorted)>> \o InsertStable(Tail(sorted), r)

RECURSIVE SortValues(_)
SortValues(rows) ==
    IF rows = <<>> THEN <<>>
    ELSE InsertStable(SortValues(SubSeq(rows, 1, Len(rows) - 1)), rows[Len(rows)])

\* The orders in which a Python set of str may be iterated.
Orderings(S) == {o \in [1..Cardinality(S) -> S] : \A c \in S : \E i \in DOMAIN o : o[i] = c}

\* compare_pcf_data(current_df, previous_df), the set all_stock_codes being
\* iterated in `order`.  With no code at all, pd.DataFrame([]) has no
\* columns and sort_values raises KeyError.
ComparePcfData(cur, prev, order) ==
    LET current_dict == DictOf(cur)
        prev_dict == DictOf(prev)
        comparison_data == [i \in DOMAIN order |->
                               CompareRow(order[i], current_dict, prev_dict)]
    IN  IF comparison_data = <<>>
        THEN [raised |-> "KeyError", val |-> <<>>]
        ELSE [raised |-> "", val |-> SortValues(comparison_data)]


-----------------------------------------------------------------------------
(***************************************************************************)
(* parse_pcf_excel                                                         *)
(***************************************************************************)
MaxGridRows == 3    \* rows of a grid handed to parse_pcf_excel
MaxCols == 4        \* columns of such a grid: MaxCols - 1 or MaxCols
MIN_CELLS == 4      \* len(row_values) >= 4

NaN == [na |-> TRUE, s |-> <<>>]
Str(s) == [na |-> FALSE, s |-> s]
NotNa(cell) == ~cell.na

HEADER_MARKER == <<"gu", "piao", "dai", "hao">>    \* '股票代號'
CASH_MARKER == <<"xian", "jin">>                    \* '現金'
TOTAL_MARKER == <<"he", "ji">>                      \* '合計'

Digits == {"0", "1", "2", "3", "4", "5", "6", "7", "8", "9"}
DigitVal(ch) == CASE ch = "0" -> 0 [] ch = "1" -> 1 [] ch = "2" -> 2
                  [] ch = "3" -> 3 [] ch = "4" -> 4 [] ch = "5" -> 5
                  [] ch = "6" -> 6 [] ch = "7" -> 7 [] ch = "8" -> 8
                  [] ch = "9" -> 9

\* sub in s
Contains(sub, s) ==
    \E i \in 0..(Len(s) - Len(sub)) : SubSeq(s, i + 1, i + Len(sub)) = sub

\* s.strip()
RECURSIVE LStrip(_)
LStrip(s) == IF s # <<>> /\ Head(s) = " " THEN LStrip(Tail(s)) ELSE s
RECURSIVE RStrip(_)
RStrip(s) == IF s # <<>> /\ s[Len(s)] = " "
             THEN RStrip(SubSeq(s, 1, Len(s) - 1)) ELSE s
Strip(s) == RStrip(LStrip(s))

\* s.replace(ch, '')
RECURSIVE Remove(_, _)
Remove(s, ch) ==
    IF s = <<>> THEN <<>>
    ELSE IF Head(s) = ch THEN Remove(Tail(s), ch)
    ELSE <<Head(s)>> \o Remove(Tail(s), ch)

\* s.isdigit()
IsDigit(s) == s # <<>> /\ \A i \in 1..Len(s) : s[i] \in Digits

\* int(s) of a digit string
RECURSIVE ToInt(_)
ToInt(s) == IF s = <<>> THEN 0
            ELSE 10 * ToInt(SubSeq(s, 1, Len(s) - 1)) + DigitVal(s[Len(s)])

\* re.match(r'^\d{4}$', s) on a stripped string
Match3Digits(s) == Len(s) >= 3 /\ \A i \in 1..Len(s) : s[i] \in Digits
Match4Digits(s) == Len(s) = 4 /\ \A i \in 1..Len(s) : s[i] \in Digits

\* float(s) of a plain decimal with at most 3 decimals, in thousandths;
\* float() raises ValueError on a string that is no number.
DotAt(s) == CHOOSE i \in 1..Len(s) : s[i] = "."
IsDecimal(s) ==
    \/ IsDigit(s)
    \/ /\ Contains(<<".">>, s)
       /\ IsDigit(SubSeq(s, 1, DotAt(s) - 1))
       /\ IsDigit(SubSeq(s, DotAt(s) + 1, Len(s)))
       /\ Len(s) - DotAt(s) <= 3
Pad3(frac) == IF Len(frac) = 1 THEN frac \o <<"0", "0">>
              ELSE IF Len(frac) = 2 THEN frac \o <<"0">> ELSE frac
ToFloat(s) ==
    IF ~IsDecimal(s) THEN [raised |-> "ValueError", val |-> 0]
    ELSE IF IsDigit(s) THEN [raised |-> "", val |-> 1000 * ToInt(s)]
    ELSE [raised |-> "",
          val |-> 1000 * ToInt(SubSeq(s, 1, DotAt(s) - 1))
                  + ToInt(Pad3(SubSeq(s, DotAt(s) + 1, Len(s))))]

\* The scan for the title row: any non-empty cell containing the marker.
IsHeaderRow(row) ==
    \E j \in 1..Len(row) : NotNa(row[j]) /\ Contains(HEADER_MARKER, row[j].s)
HasHeader(grid) == \E i \in 1..Len(grid) : IsHeaderRow(grid[i])
StockHeaderRow(grid) == CHOOSE i \in 1..Len(grid) :
    IsHeaderRow(grid[i]) /\ \A j \in 1..(i - 1) : ~IsHeaderRow(grid[j])

\* first_col of a row, and the test that ends the stock list.
FirstCol(row) == IF NotNa(row[1]) THEN Strip(row[1].s) ELSE <<>>
EndsListLoose(row) ==
    LET first_col == FirstCol(row) IN
    \/ first_col = <<>>
    \/ Contains(CASH_MARKER, first_col)
    \/ Contains(TOTAL_MARKER, first_col)
    \/ ~Match3Digits(first_col)
EndsList(row) ==
    LET first_col == FirstCol(row) IN
    \/ first_col = <<>>
    \/ Contains(CASH_MARKER, first_col)
    \/ Contains(TOTAL_MARKER, first_col)
    \/ ~Match4Digits(first_col)

\* stock_end_row: the first row after the title row that ends the list,
\* else len(df).  Rows are numbered from 1 here, so len(df) is Len(grid) + 1.
StockEndRow(grid, h) ==
    IF \E i \in (h + 1)..Len(grid) : EndsList(grid[i])
    THEN CHOOSE i \in (h + 1)..Len(grid) :
            EndsList(grid[i]) /\ \A j \in (h + 1)..(i - 1) : ~EndsList(grid[j])
    ELSE Len(grid) + 1

\* The conversions of one row of the range.
StockName(row) == IF NotNa(row[2]) THEN Strip(row[2].s) ELSE <<>>
SharesOf(row) ==
    LET shares_str == IF NotNa(row[3]) THEN Strip(row[3].s) ELSE <<"0">> IN
    IF IsDigit(Remove(shares_str, ",")) THEN ToInt(Remove(shares_str, ",")) ELSE 0
WeightOf(row) ==
    LET weight_str == IF NotNa(row[4]) THEN Strip(row[4].s) ELSE <<"0", "%">> IN
    IF weight_str # <<>> /\ weight_str[Len(weight_str)] = "%"
    THEN ToFloat(Remove(weight_str, "%"))
    ELSE [raised |-> "", val |-> 0]

\* The gate of the extraction loop.
Extracted(row) == Len(row) >= MIN_CELLS /\ NotNa(row[1])

RECURSIVE StockData(_, _, _)
StockData(grid, i, end) ==
    IF i >= end THEN [raised |-> "", val |-> <<>>]
    ELSE IF ~Extracted(grid[i]) THEN StockData(grid, i + 1, end)
    ELSE IF WeightOf(grid[i]).raised # ""
    THEN [raised |-> WeightOf(grid[i]).raised, val |-> <<>>]
    ELSE LET rest == StockData(grid, i + 1, end) IN
         [raised |-> rest.raised,
          val |-> IF rest.raised # "" THEN <<>>
                  ELSE <<Holding(Strip(grid[i][1].s), StockName(grid[i]),
                                 SharesOf(grid[i]), WeightOf(grid[i]).val)>>
                       \o rest.val]

\* parse_pcf_excel on the grid pd.read_excel(header=None) gives.
ParsePcfExcel(grid) ==
    IF ~HasHeader(grid) THEN [raised |-> "ValueError", val |-> <<>>]
    ELSE LET stock_header_row == StockHeaderRow(grid) IN
         StockData(grid, stock_header_row + 1, StockEndRow(grid, stock_header_row))

-----------------------------------------------------------------------------
(***************************************************************************)
(* save_comparison_result                                                  *)
(***************************************************************************)
MaxSaveRows == 2    \* rows of a table handed to save_comparison_result alone

\* The columns of the sheet, in the order compare_pcf_data builds them.
Headers == <<"code", "name", "shares", "weight", "prev_shares", "prev_weight",
             "shares_delta", "shares_delta_pct", "weight_delta_pct">>

NEW_STOCK_FILL == "FFFF00"          \* yellow
NEGATIVE_CHANGE_FILL == "90EE90"    \* light green
HIGH_CHANGE_FILL == "FFB6C1"        \* pink
NoFill == "none"                    \* row_fill = None: the cell is left alone
HIGH_CHANGE_PCT == 30               \* change_pct_value > 30

\* isinstance(value, (int, float)) of a cell value
IsNumber(v) == v.label = "num"

\* row_fill of one data row: the if / else / if / elif of the loop.
RowFillGreenFirst(row) ==
    LET change_pct_value == row.shares_delta_pct
        share_change_value == Numeric(row.shares_delta)
    IN  IF IsNumber(share_change_value) /\ share_change_value.num < 0
        THEN NEGATIVE_CHANGE_FILL
        ELSE IF change_pct_value = NewLabel
        THEN NEW_STOCK_FILL
        ELSE IF IsNumber(change_pct_value)
                /\ change_pct_value.num > HIGH_CHANGE_PCT * 100
        THEN HIGH_CHANGE_FILL
        ELSE NoFill
RowFill(row) ==
    LET change_pct_value == row.shares_delta_pct
        share_change_value == Numeric(row.shares_delta)
    IN  IF change_pct_value = NewLabel
        THEN NEW_STOCK_FILL
        ELSE IF IsNumber(share_change_value) /\ share_change_value.num < 0
        THEN NEGATIVE_CHANGE_FILL
        ELSE IF IsNumber(change_pct_value)
                /\ change_pct_value.num > HIGH_CHANGE_PCT * 100
        THEN HIGH_CHANGE_FILL
        ELSE NoFill

\* The sheet as to_excel writes it: the rows, no cell filled.
WrittenSheet(df) ==
    [rows |-> df,
     fill |-> [r \in 1..Len(df) |-> [c \in 1..Len(Headers) |-> NoFill]]]

\* The sheet after the colouring loop: row_fill on every column of the row.
ColouredSheet(df) ==
    [rows |-> df,
     fill |-> [r \in 1..Len(df) |-> [c \in 1..Len(Headers) |-> RowFill(df[r])]]]

-----------------------------------------------------------------------------
(***************************************************************************)
(* Dates and retrieval                                                     *)
(***************************************************************************)
FirstDate == 738960 \* the earliest requested date (2024-03-15, a Friday)
NumDates == 7       \* requested dates: FirstDate .. FirstDate + NumDates - 1
MAX_ATTEMPTS == 10  \* max_attempts
MIN_SIZE == 1000    \* len(response.content) < 1000
SATURDAY == 5       \* weekday() >= 5

Dates == FirstDate..(FirstDate + NumDates - 1)

\* datetime.weekday(): Monday is 0
Weekday(d) == (d + 6) % 7

\* get_previous_business_day: one day back, then back over the week-end.
RECURSIVE SkipWeekend(_)
SkipWeekend(d) == IF Weekday(d) >= SATURDAY THEN SkipWeekend(d - 1) ELSE d
GetPreviousDay(d) == d - 1
GetPreviousBusinessDay(d) == SkipWeekend(d - 1)

\* What the server may answer to one GET.
Response(k, n, g) == [kind |-> k, size |-> n, content |-> g]

\* download_pcf_excel: the content, or None on a transport error, an HTTP
\* error status or a body under MIN_SIZE bytes.
DownloadPcfExcelAny(resp) ==
    IF resp.kind = "body" THEN Some(resp.content) ELSE None
DownloadPcfExcel(resp) ==
    IF resp.kind = "body" /\ resp.size >= MIN_SIZE
    THEN Some(resp.content) ELSE None

-----------------------------------------------------------------------------
(***************************************************************************)
(* Inputs                                                                  *)
(***************************************************************************)
SeqsUpTo(S, n) == UNION {[1..k -> S] : k \in 0..n}

\* Rows of a spreadsheet, four cells each.
RowTitle == <<Str(HEADER_MARKER), Str(<<"ming">>), Str(<<"gu", "shu">>), Str(<<"bi">>)>>
RowTitleInside == <<NaN, Str(<<"(">> \o HEADER_MARKER \o <<")">>), NaN, NaN>>
RowStockA == <<Str(<<"1", "1", "0", "1">>), Str(<<"A">>),
               Str(<<"1", ",", "0", "0", "0">>), Str(<<"1", ".", "2", "5", "%">>)>>
RowStockB == <<Str(<<" ", "2", "3", "3", "0", " ">>), Str(<<"B">>),
               Str(<<"2">>), Str(<<"2", ".", "0", "0", "4", "%">>)>>
RowStockOdd == <<Str(<<"1", "2", "1", "6">>), NaN, Str(<<"x">>), Str(<<"5">>)>>
RowStockBadWeight == <<Str(<<"2", "0", "0", "2">>), Str(<<"A">>), NaN, Str(<<"x", "%">>)>>
RowStockTitled == <<Str(<<"2", "3", "3", "0">>), Str(HEADER_MARKER), Str(<<"3">>), NaN>>
Row3Digits == <<Str(<<"1", "1", "0">>), Str(<<"A">>), Str(<<"1">>), Str(<<"1", "%">>)>>
Row5Digits == <<Str(<<"1", "1", "0", "1", "2">>), Str(<<"A">>), Str(<<"1">>), Str(<<"1", "%">>)>>
RowCash == <<Str(CASH_MARKER), NaN, Str(<<"9">>), Str(<<"3", "%">>)>>
RowTotal == <<Str(<<" ">> \o TOTAL_MARKER), NaN, Str(<<"9">>), NaN>>
RowBlank == <<NaN, NaN, NaN, NaN>>
RowSpace == <<Str(<<" ">>), Str(<<"A">>), Str(<<"1">>), Str(<<"1", "%">>)>>

SampleRows == {RowTitle, RowTitleInside, RowStockA, RowStockB, RowStockOdd,
               RowStockBadWeight, RowStockTitled, Row3Digits, Row5Digits,
               RowCash, RowTotal, RowBlank, RowSpace}

\* A grid is rectangular: every row has the grid's number of columns.
Widen(row, w) == [j \in 1..w |-> IF j <= Len(row) THEN row[j] ELSE NaN]
GridOf(rows, w) == [i \in 1..Len(rows) |-> Widen(rows[i], w)]
Grids == {GridOf(rows, w) : rows \in SeqsUpTo(SampleRows, MaxGridRows),
                            w \in (MaxCols - 1)..MaxCols}

\* The files the server holds, for a whole run.
ContentSamples == {<<RowBlank, RowStockA>>,
                   <<RowTitle, RowTotal>>,
                   <<RowTitle, RowStockA, RowTotal, RowStockB>>,
                   <<RowTitle, RowStockB, RowStockA>>}

Responses == {Response("transport_error", 0, <<>>),
              Response("http_error", 0, <<>>),
              Response("body", MIN_SIZE - 1, <<>>)}
             \cup {Response("body", MIN_SIZE, g) : g \in ContentSamples}

\* Holdings tables handed to compare_pcf_data.
Holdings == {Holding(c, n, s, w) :
                c \in Codes, n \in Names, s \in 0..MaxShares, w \in Weights}

\* Rows handed to save_comparison_result, built by hand: every display value
\* with every sign of the absolute change.
SavePcts == {NewLabel, LiquidatedLabel, Numeric(-10000), Numeric(0),
             Numeric(HIGH_CHANGE_PCT * 100), Numeric(HIGH_CHANGE_PCT * 100 + 1)}
SaveRows == {[code |-> <<"1", "1", "0", "1">>, name |-> <<"A">>,
              shares |-> 1, weight |-> 1250, prev_shares |-> 1,
              prev_weight |-> 1250, shares_delta |-> d,
              shares_delta_pct |-> p, weight_delta_pct |-> 0] :
                d \in {-1, 0, 1}, p \in SavePcts}

-----------------------------------------------------------------------------
(***************************************************************************)
(* The run: main() and PCFDownloader.process                               *)
(***************************************************************************)
\* An entry of fetchLog: the date asked for and what download_pcf_excel
\* returned for it.
Fetched(d, content) == [date |-> d, ok |-> content.ok, got |-> content]

\* output_filepath = os.path.join("output", f"PCF_Comparison_..._{date}.xlsx")
OutputFilepath(d) == [dir |-> "output", date |-> d]

\* The run ends: sys.exit(1) from main's except, or main returns (exit 0).
Finish(code) == pc' = "done" /\ exit_code' = Some(code)

\* os.makedirs("output", exist_ok=True); an OSError leaves process().
Makedirs ==
    /\ pc = "makedirs"
    /\ \E created \in BOOLEAN :
          /\ output_dir' = created
          /\ IF created
             THEN pc' = "roc_date" /\ exit_code' = exit_code
             ELSE Finish(1)
    /\ UNCHANGED comparison_file
    /\ UNCHANGED <<date, current_date, prev_date, attempt, response, fetchLog,
                   current_excel_content, prev_excel_content, current_df,
                   previous_df, comparison_df, output_file, steps>>

\* roc_date = self.date_to_roc_format(date): strptime raises ValueError on
\* a string that is no date.
RocDate ==
    /\ pc = "roc_date"
    /\ UNCHANGED <<output_dir, comparison_file>>
    /\ IF date.ok
       THEN pc' = "fetch_current" /\ exit_code' = exit_code
       ELSE Finish(1)
    /\ UNCHANGED <<date, current_date, prev_date, attempt, response, fetchLog,
                   current_excel_content, prev_excel_content, current_df,
                   previous_df, comparison_df, output_file, steps>>

\* current_excel_content = self.download_pcf_excel(fund_code, roc_date);
\* None raises, and main exits with 1.  Otherwise the search starts:
\* current_date = date_str.
DownloadCurrent ==
    /\ pc = "fetch_current"
    /\ UNCHANGED <<output_dir, comparison_file>>
    /\ \E resp \in Responses :
          LET content == DownloadPcfExcel(resp) IN
          /\ response' = Some(resp)
          /\ fetchLog' = Append(fetchLog, Fetched(date.val, content))
          /\ current_excel_content' = content
          /\ IF content.ok
             THEN /\ pc' = "search"
                  /\ current_date' = Some(date.val)
                  /\ exit_code' = exit_code
             ELSE /\ Finish(1)
                  /\ current_date' = current_date
    /\ UNCHANGED <<date, prev_date, attempt, prev_excel_content, current_df,
                   previous_df, comparison_df, output_file, steps>>

\* for attempt in range(max_attempts):
\*     prev_date = self.get_previous_business_day(current_date)
PreviousBusinessDay ==
    /\ pc = "search"
    /\ UNCHANGED <<output_dir, comparison_file>>
    /\ attempt < MAX_ATTEMPTS
    /\ prev_date' = Some(GetPreviousBusinessDay(current_date.val))
    /\ pc' = "download_prev"
    /\ UNCHANGED <<date, current_date, attempt, response, fetchLog,
                   current_excel_content, prev_excel_content, current_df,
                   previous_df, comparison_df, output_file, steps, exit_code>>

\*     excel_content = self.download_pcf_excel(fund_code, roc_prev_date)
\*     if excel_content is not None: return excel_content
\*     current_date = prev_date
DownloadPreviousFromStart ==
    /\ pc = "download_prev"
    /\ UNCHANGED <<output_dir, comparison_file>>
    /\ \E resp \in Responses :
          LET content == DownloadPcfExcel(resp) IN
          /\ response' = Some(resp)
          /\ fetchLog' = Append(fetchLog, Fetched(prev_date.val, content))
          /\ IF content.ok
             THEN /\ prev_excel_content' = content
                  /\ pc' = "parse_current"
                  /\ UNCHANGED <<current_date, attempt>>
             ELSE /\ current_date' = date
                  /\ attempt' = attempt + 1
                  /\ pc' = "search"
                  /\ UNCHANGED prev_excel_content
    /\ UNCHANGED <<date, prev_date, current_excel_content, current_df,
                   previous_df, comparison_df, output_file, steps, exit_code>>
DownloadPrevious ==
    /\ pc = "download_prev"
    /\ UNCHANGED <<output_dir, comparison_file>>
    /\ \E resp \in Responses :
          LET content == DownloadPcfExcel(resp) IN
          /\ response' = Some(resp)
          /\ fetchLog' = Append(fetchLog, Fetched(prev_date.val, content))
          /\ IF content.ok
             THEN /\ prev_excel_content' = content
                  /\ pc' = "parse_current"
                  /\ UNCHANGED <<current_date, attempt>>
             ELSE /\ current_date' = prev_date
                  /\ attempt' = attempt + 1
                  /\ pc' = "search"
                  /\ UNCHANGED prev_excel_content
    /\ UNCHANGED <<date, prev_date, current_excel_content, current_df,
                   previous_df, comparison_df, output_file, steps, exit_code>>

SearchExhaustedRaises ==
    /\ pc = "search"
    /\ UNCHANGED <<output_dir, comparison_file>>
    /\ attempt >= MAX_ATTEMPTS
    /\ Finish(1)
    /\ UNCHANGED <<date, current_date, prev_date, attempt, response, fetchLog,
                   current_excel_content, prev_excel_content, current_df,
                   previous_df, comparison_df, output_file, steps>>
\* The loop ends without a file: find_and_download_previous_day returns
\* None, process prints a warning and returns None, main returns.
SearchExhausted ==
    /\ pc = "search"
    /\ UNCHANGED <<output_dir, comparison_file>>
    /\ attempt >= MAX_ATTEMPTS
    /\ Finish(0)
    /\ UNCHANGED <<date, current_date, prev_date, attempt, response, fetchLog,
                   current_excel_content, prev_excel_content, current_df,
                   previous_df, comparison_df, output_file, steps>>

\* current_df = self.parse_pcf_excel(current_excel_content), inside the try
\* of process: an exception makes process return None, and main returns.
ParseCurrent ==
    /\ pc = "parse_current"
    /\ UNCHANGED <<output_dir, comparison_file>>
    /\ steps' = steps \cup {"parse"}
    /\ LET r == ParsePcfExcel(current_excel_content.val) IN
       IF r.raised # ""
       THEN Finish(0) /\ current_df' = current_df
       ELSE pc' = "parse_previous" /\ current_df' = Some(r.val)
                                   /\ exit_code' = exit_code
    /\ UNCHANGED <<date, current_date, prev_date, attempt, response, fetchLog,
                   current_excel_content, prev_excel_content, previous_df,
                   comparison_df, output_file>>

ParsePreviousUncaught ==
    /\ pc = "parse_previous"
    /\ UNCHANGED <<output_dir, comparison_file>>
    /\ LET r == ParsePcfExcel(prev_excel_content.val) IN
       IF r.raised # ""
       THEN Finish(1) /\ previous_df' = previous_df
       ELSE pc' = "compare" /\ previous_df' = Some(r.val)
                            /\ exit_code' = exit_code
    /\ UNCHANGED <<date, current_date, prev_date, attempt, response, fetchLog,
                   current_excel_content, prev_excel_content, current_df,
                   comparison_df, output_file, steps>>
\* previous_df = self.parse_pcf_excel(prev_excel_content)
ParsePrevious ==
    /\ pc = "parse_previous"
    /\ UNCHANGED <<output_dir, comparison_file>>
    /\ LET r == ParsePcfExcel(prev_excel_content.val) IN
       IF r.raised # ""
       THEN Finish(0) /\ previous_df' = previous_df
       ELSE pc' = "compare" /\ previous_df' = Some(r.val)
                            /\ exit_code' = exit_code
    /\ UNCHANGED <<date, current_date, prev_date, attempt, response, fetchLog,
                   current_excel_content, prev_excel_content, current_df,
                   comparison_df, output_file, steps>>

\* comparison_df = self.compare_pcf_data(current_df, previous_df)
Compare ==
    /\ pc = "compare"
    /\ UNCHANGED <<output_dir, comparison_file>>
    /\ steps' = steps \cup {"compare"}
    /\ \E order \in Orderings(AllStockCodes(current_df.val, previous_df.val)) :
          LET r == ComparePcfData(current_df.val, previous_df.val, order) IN
          IF r.raised # ""
          THEN Finish(0) /\ comparison_df' = comparison_df
          ELSE pc' = "save" /\ comparison_df' = Some(r.val)
                            /\ exit_code' = exit_code
    /\ UNCHANGED <<date, current_date, prev_date, attempt, response, fetchLog,
                   current_excel_content, prev_excel_content, current_df,
                   previous_df, output_file>>

\* comparison_filepath = self.save_comparison_result(...), then the summary
\* and the return.  The file is written twice (to_excel, then
\* workbook.save after the colouring loop); either write may raise OSError,
\* which the except of process turns into a None result; after both,
\* print_comparison_summary runs and process returns the path.  A print
\* of the summary that raises (OSError on stdout) is caught the same way,
\* with the report already on disk.
Save ==
    /\ pc = "save"
    /\ \E io \in {"ok", "write_failed", "resave_failed", "summary_failed"} :
          /\ output_file' =
                CASE io \in {"ok", "summary_failed"} ->
                        Some(ColouredSheet(comparison_df.val))
                  [] io = "resave_failed" -> Some(WrittenSheet(comparison_df.val))
                  [] io = "write_failed" -> output_file
          /\ steps' = steps \cup (IF io \in {"ok", "summary_failed"}
                                  THEN {"save", "summary"} ELSE {"save"})
          /\ comparison_file' = IF io = "ok"
                                 THEN Some(OutputFilepath(date.val))
                                 ELSE comparison_file
    /\ Finish(0)
    /\ UNCHANGED output_dir
    /\ UNCHANGED <<date, current_date, prev_date, attempt, response, fetchLog,
                   current_excel_content, prev_excel_content, current_df,
                   previous_df, comparison_df>>

-----------------------------------------------------------------------------
(***************************************************************************)
(* Specifications                                                          *)
(***************************************************************************)
\* The state a run starts from, at position p.
Blank(p) ==
    /\ pc = p
    /\ current_date = None
    /\ prev_date = None
    /\ attempt = 0
    /\ response = None
    /\ fetchLog = <<>>
    /\ output_file = None
    /\ steps = {}
    /\ exit_code = None
    /\ output_dir = (p # "makedirs")
    /\ comparison_file = None

\* A whole run of main(): --date is a date, or a string that is none.
Init ==
    /\ Blank("makedirs")
    /\ date \in {None} \cup {Some(d) : d \in Dates}
    /\ current_excel_content = None
    /\ prev_excel_content = None
    /\ current_df = None
    /\ previous_df = None
    /\ comparison_df = None

Next ==
    \/ Makedirs
    \/ RocDate
    \/ DownloadCurrent
    \/ PreviousBusinessDay
    \/ DownloadPrevious
    \/ SearchExhausted
    \/ ParseCurrent
    \/ ParsePrevious
    \/ Compare
    \/ Save

Spec == Init /\ [][Next]_vars

\* parse_pcf_excel alone, on every grid of the bounds.
InitParse ==
    /\ Blank("parse_current")
    /\ date = Some(FirstDate)
    /\ \E g \in Grids : current_excel_content = Some(g)
    /\ prev_excel_content = None
    /\ current_df = None
    /\ previous_df = None
    /\ comparison_df = None

SpecParse == InitParse /\ [][ParseCurrent]_vars

\* compare_pcf_data alone, on every pair of tables of the bounds.
InitCompare ==
    /\ Blank("compare")
    /\ date = Some(FirstDate)
    /\ current_excel_content = None
    /\ prev_excel_content = None
    /\ \E k \in 0..MaxRows : \E kc \in 0..k :
          \E cur \in [1..kc -> Holdings], prev \in [1..(k - kc) -> Holdings] :
             current_df = Some(cur) /\ previous_df = Some(prev)
    /\ comparison_df = None

SpecCompare == InitCompare /\ [][Compare]_vars

\* save_comparison_result alone, on hand-built tables.
InitSave ==
    /\ Blank("save")
    /\ date = Some(FirstDate)
    /\ current_excel_content = None
    /\ prev_excel_content = None
    /\ current_df = None
    /\ previous_df = None
    /\ \E df \in SeqsUpTo(SaveRows, MaxSaveRows) : comparison_df = Some(df)

SpecSave == InitSave /\ [][Save]_vars

-----------------------------------------------------------------------------
(***************************************************************************)
(* Properties of compare_pcf_data (checked under SpecCompare)              *)
(***************************************************************************)
\* What a table says of a code: the values of its last row with that code,
\* and 0 for a code it does not list.
Listed(df, c) == \E i \in 1..Len(df) : df[i].code = c
LastSeen(df, c) == df[CHOOSE i \in 1..Len(df) :
                        df[i].code = c /\ \A j \in 1..Len(df) : df[j].code = c => j <= i]
SeenShares(df, c) == IF Listed(df, c) THEN LastSeen(df, c).shares ELSE 0
SeenWeight(df, c) == IF Listed(df, c) THEN LastSeen(df, c).weight ELSE 0

Abs(x) == IF x < 0 THEN 0 - x ELSE x

\* C1: in every row of the result, the share percentage is the label
\* LIQUIDATED exactly when the current shares are 0 and the previous shares
\* are positive, and shares_delta is then minus the previous shares.
C1_LiquidatedIffSoldOut ==
    comparison_df.ok =>
        \A i \in 1..Len(comparison_df.val) :
            LET r == comparison_df.val[i]
                cur == SeenShares(current_df.val, r.code)
                prev == SeenShares(previous_df.val, r.code)
            IN  /\ (r.shares_delta_pct = LiquidatedLabel) <=> (cur = 0 /\ prev > 0)
                /\ (cur = 0 /\ prev > 0) => r.shares_delta = 0 - prev

\* C2: in every row of the result, the share percentage is the label NEW
\* exactly when the previous shares are 0 (the code is absent from the
\* previous table, or listed there with 0 shares) and the current shares are
\* positive, and shares_delta is then the current shares.
C2_NewIffNoPreviousShares ==
    comparison_df.ok =>
        \A i \in 1..Len(comparison_df.val) :
            LET r == comparison_df.val[i]
                cur == SeenShares(current_df.val, r.code)
                prev == SeenShares(previous_df.val, r.code)
            IN  /\ (r.shares_delta_pct = NewLabel) <=> (prev = 0 /\ cur > 0)
                /\ (prev = 0 /\ cur > 0) => r.shares_delta = cur

\* C2 witness: a NEW row for a code the previous table lists with 0 shares.
C2_Witness ==
    /\ comparison_df.ok
    /\ \E i \in 1..Len(comparison_df.val) :
          LET r == comparison_df.val[i] IN
          /\ r.shares_delta_pct = NewLabel
          /\ Listed(previous_df.val, r.code)
          /\ r.shares_delta = r.shares
          /\ r.shares > 0

\* C3: compare_pcf_data returns a table for every pair of tables; its codes
\* are the union of the codes of the two tables, one row per code, each row
\* carrying the last-seen values of its code.
C3_OneRowPerCodeOfUnion ==
    pc # "compare" =>
        /\ comparison_df.ok
        /\ LET rows == comparison_df.val
               union == {current_df.val[i].code : i \in 1..Len(current_df.val)}
                        \cup {previous_df.val[i].code : i \in 1..Len(previous_df.val)}
           IN  /\ {rows[i].code : i \in 1..Len(rows)} = union
               /\ Len(rows) = Cardinality(union)
               /\ \A i \in 1..Len(rows) :
                     /\ rows[i].shares = SeenShares(current_df.val, rows[i].code)
                     /\ rows[i].weight = SeenWeight(current_df.val, rows[i].code)
                     /\ rows[i].prev_shares = SeenShares(previous_df.val, rows[i].code)
                     /\ rows[i].prev_weight = SeenWeight(previous_df.val, rows[i].code)

\* C10 as stated: in a row whose shares are both positive or both 0 the
\* percentage is a number equal to (current - previous) / previous * 100
\* (0 when both are 0) and shares_delta is current - previous; in every row
\* the weight delta is current weight - previous weight.
C10_ExactDeltas ==
    comparison_df.ok =>
        \A i \in 1..Len(comparison_df.val) :
            LET r == comparison_df.val[i]
                cur == SeenShares(current_df.val, r.code)
                prev == SeenShares(previous_df.val, r.code)
                wdiff == SeenWeight(current_df.val, r.code)
                         - SeenWeight(previous_df.val, r.code)
            IN  /\ (cur > 0 /\ prev > 0) =>
                      /\ IsNumber(r.shares_delta_pct)
                      /\ r.shares_delta_pct.num * prev = (cur - prev) * 10000
                      /\ r.shares_delta = cur - prev
                /\ (cur = 0 /\ prev = 0) =>
                      /\ r.shares_delta_pct = Numeric(0)
                      /\ r.shares_delta = 0
                /\ r.weight_delta_pct * 10 = wdiff

\* C10 as amended: the same, the percentage and the weight delta being the
\* exact values rounded to 2 decimals (the nearest hundredth).
C10_RoundedDeltas ==
    comparison_df.ok =>
        \A i \in 1..Len(comparison_df.val) :
            LET r == comparison_df.val[i]
                cur == SeenShares(current_df.val, r.code)
                prev == SeenShares(previous_df.val, r.code)
                wdiff == SeenWeight(current_df.val, r.code)
                         - SeenWeight(previous_df.val, r.code)
            IN  /\ (cur > 0 /\ prev > 0) =>
                      /\ IsNumber(r.shares_delta_pct)
                      /\ 2 * Abs(r.shares_delta_pct.num * prev - (cur - prev) * 10000)
                            <= prev
                      /\ r.shares_delta = cur - prev
                /\ (cur = 0 /\ prev = 0) =>
                      /\ r.shares_delta_pct = Numeric(0)
                      /\ r.shares_delta = 0
                /\ 2 * Abs(r.weight_delta_pct * 10 - wdiff) <= 10

\* C10 witness: a row with both shares positive whose percentage is not a
\* whole number of hundredths (2 of 3 shares left: -33.33) and whose weight
\* delta rounding changes.
C10_Witness ==
    /\ comparison_df.ok
    /\ \E i \in 1..Len(comparison_df.val) :
          LET r == comparison_df.val[i] IN
          /\ r.shares = 2 /\ r.prev_shares = 3
          /\ r.shares_delta_pct = Numeric(-3333)
          /\ r.shares_delta = -1
          /\ r.weight_delta_pct * 10 # r.weight - r.prev_weight

-----------------------------------------------------------------------------
(***************************************************************************)
(* Properties of the run (checked under Spec)                              *)
(***************************************************************************)
Weekend == {5, 6}       \* Saturday and Sunday, as weekday() numbers them

\* c is the latest day before d that is no Saturday and no Sunday.
IsPreviousBusinessDayOf(c, d) ==
    /\ c < d
    /\ Weekday(c) \notin Weekend
    /\ \A x \in (c + 1)..(d - 1) : Weekday(x) \in Weekend

\* The GET for the requested date failed: a transport error, an error
\* status, or a body under 1000 bytes.
FetchFailed(resp) ==
    \/ resp.kind \in {"transport_error", "http_error"}
    \/ resp.kind = "body" /\ resp.size < 1000

\* The first fetch succeeded and ten backward fetches failed.
SearchFailedTenTimes ==
    /\ Len(fetchLog) = 11
    /\ fetchLog[1].ok
    /\ \A k \in 2..11 : ~fetchLog[k].ok

\* C4: when the fetch of the requested date succeeds and all ten fetches of
\* the backward search fail, the run ends with exit code 0, no extraction,
\* comparison or report step has run, and no output file exists.
C4_ExhaustedSearchExitsZero ==
    SearchFailedTenTimes =>
        /\ steps = {}
        /\ output_file = None
        /\ pc \in {"search", "done"}
        /\ pc = "done" => exit_code = Some(0)
        /\ pc = "search" => ENABLED SearchExhausted /\ ~ENABLED PreviousBusinessDay

\* C4 witness: such a run, ended.
C4_Witness ==
    /\ SearchFailedTenTimes
    /\ pc = "done"
    /\ exit_code = Some(0)
    /\ output_file = None

\* C5: when the fetch of the requested date fails, the run has ended with
\* exit code 1 after that single fetch, the search was never started and no
\* output file exists; the search only runs after that fetch succeeded.
C5_CurrentFetchFailureIsFatal ==
    /\ (Len(fetchLog) = 1 /\ FetchFailed(response.val)) =>
          /\ ~fetchLog[1].ok
          /\ pc = "done"
          /\ exit_code = Some(1)
    /\ (Len(fetchLog) >= 1 /\ ~fetchLog[1].ok) =>
          /\ Len(fetchLog) = 1
          /\ FetchFailed(response.val)
          /\ pc = "done"
          /\ exit_code = Some(1)
          /\ output_file = None
          /\ steps = {}
          /\ ~current_date.ok
          /\ ~prev_date.ok
    /\ (pc \in {"search", "download_prev"} \/ prev_date.ok \/ Len(fetchLog) >= 2) =>
          /\ fetchLog[1].date = date.val
          /\ fetchLog[1].ok
          /\ current_excel_content.ok

\* C5 witness: the requested date answered with a body under 1000 bytes,
\* and the run ended with exit code 1.
C5_Witness ==
    /\ Len(fetchLog) = 1
    /\ response.val.kind = "body"
    /\ response.val.size < 1000
    /\ pc = "done"
    /\ exit_code = Some(1)

\* C6: the backward search issues at most 10 fetches; the first asks for the
\* previous business day of the requested date and each later one for the
\* previous business day of the one before (so the dates strictly decrease);
\* no fetch follows a successful one, whose content is what the search
\* returns; the search returns nothing only after 10 failed fetches; and
\* while it runs it can always take its next step.
C6_BoundedBackwardSearch ==
    LET n == Len(fetchLog) IN
    /\ n <= 1 + 10
    /\ \A k \in 2..n : IsPreviousBusinessDayOf(fetchLog[k].date, fetchLog[k - 1].date)
    /\ n >= 2 => fetchLog[1].date = date.val
    /\ \A j, k \in 2..n : j < k => fetchLog[k].date < fetchLog[j].date
    /\ \A k \in 2..(n - 1) : ~fetchLog[k].ok
    /\ prev_excel_content.ok =>
          /\ n >= 2
          /\ fetchLog[n].ok
          /\ prev_excel_content = fetchLog[n].got
          /\ pc \notin {"search", "download_prev"}
    /\ (pc = "done" /\ exit_code = Some(0) /\ ~prev_excel_content.ok) =>
          /\ n = 1 + 10
          /\ \A k \in 2..n : ~fetchLog[k].ok
    /\ pc = "search" =>
          /\ attempt = n - 1
          /\ attempt <= 10
          /\ ENABLED (PreviousBusinessDay \/ SearchExhausted)
    /\ pc = "download_prev" => attempt < 10 /\ ENABLED DownloadPrevious

\* C6 witness: the search succeeds at its tenth fetch.
C6_Witness ==
    /\ Len(fetchLog) = 11
    /\ fetchLog[11].ok
    /\ prev_excel_content.ok
    /\ pc = "parse_current"

\* C9: get_previous_business_day(d) is before d, is no Saturday and no
\* Sunday and is the latest such day: the Friday 3 days before a Monday, the
\* day before a Tuesday to Friday, and the Friday before a Saturday or a
\* Sunday.
C9_PreviousBusinessDay ==
    pc = "download_prev" =>
        LET d == current_date.val
            p == prev_date.val
        IN  /\ IsPreviousBusinessDayOf(p, d)
            /\ Weekday(d) = 0 => p = d - 3 /\ Weekday(p) = 4
            /\ Weekday(d) \in 1..4 => p = d - 1
            /\ Weekday(d) = 5 => p = d - 1 /\ Weekday(p) = 4
            /\ Weekday(d) = 6 => p = d - 2 /\ Weekday(p) = 4

\* C9 witness: the function applied to a Monday.
C9_Witness ==
    /\ pc = "download_prev"
    /\ Weekday(current_date.val) = 0
    /\ prev_date.val = current_date.val - 3

-----------------------------------------------------------------------------
(***************************************************************************)
(* Properties of save_comparison_result (checked under SpecSave)           *)
(***************************************************************************)
\* C7: in the saved sheet every data row has one fill, the same on each of
\* its 9 columns: yellow if the percentage is the label NEW, whatever the
\* rest; else light green if shares_delta is negative; else pink if the
\* percentage is a number above 30; else none.
C7_RowHighlightPriority ==
    "summary" \in steps =>
        /\ output_file.ok
        /\ output_file.val.rows = comparison_df.val
        /\ DOMAIN output_file.val.fill = 1..Len(comparison_df.val)
        /\ \A r \in 1..Len(comparison_df.val) :
              LET row == comparison_df.val[r]
                  f == output_file.val.fill[r]
                  isNew == row.shares_delta_pct = NewLabel
                  negative == row.shares_delta < 0
                  high == /\ row.shares_delta_pct.label = "num"
                          /\ row.shares_delta_pct.num > 3000
              IN  /\ DOMAIN f = 1..9
                  /\ \A c \in 1..9 : f[c] = f[1]
                  /\ isNew => f[1] = "FFFF00"
                  /\ (~isNew /\ negative) => f[1] = "90EE90"
                  /\ (~isNew /\ ~negative /\ high) => f[1] = "FFB6C1"
                  /\ (~isNew /\ ~negative /\ ~high) => f[1] = "none"

\* C7 witness: a saved row labelled NEW whose shares_delta is negative, in
\* yellow, beside a row of exactly 30 percent left without fill.
C7_Witness ==
    /\ "summary" \in steps
    /\ \E r, q \in 1..Len(output_file.val.rows) :
          /\ output_file.val.rows[r].shares_delta_pct = NewLabel
          /\ output_file.val.rows[r].shares_delta < 0
          /\ output_file.val.fill[r][1] = "FFFF00"
          /\ output_file.val.rows[q].shares_delta_pct = Numeric(3000)
          /\ output_file.val.rows[q].shares_delta > 0
          /\ output_file.val.fill[q][9] = "none"

-----------------------------------------------------------------------------
(***************************************************************************)
(* Properties of parse_pcf_excel (checked under SpecParse)                 *)
(***************************************************************************)
Min(S) == CHOOSE x \in S : \A y \in S : x <= y

FirstCell(row) == IF row[1].na THEN <<>> ELSE Strip(row[1].s)
FourDigits(s) == Len(s) = 4 /\ \A i \in 1..4 : s[i] \in Digits

\* A terminal row: its first cell is blank, contains the cash marker,
\* contains the totals marker, or is not exactly 4 digits.
Terminal(row) ==
    \/ FirstCell(row) = <<>>
    \/ Contains(<<"xian", "jin">>, FirstCell(row))
    \/ Contains(<<"he", "ji">>, FirstCell(row))
    \/ ~FourDigits(FirstCell(row))

HeaderRows(g) ==
    {i \in 1..Len(g) : \E j \in 1..Len(g[i]) :
        ~g[i][j].na /\ Contains(<<"gu", "piao", "dai", "hao">>, g[i][j].s)}
FirstHeader(g) == Min(HeaderRows(g))
FirstTerminal(g) ==
    Min({i \in (FirstHeader(g) + 1)..Len(g) : Terminal(g[i])} \cup {Len(g) + 1})

\* The first cells of the rows strictly between the first header row and
\* the first terminal row after it.
CodesBetween(g) ==
    [k \in 1..(FirstTerminal(g) - FirstHeader(g) - 1) |-> FirstCell(g[FirstHeader(g) + k])]

CodesOf(df) == [k \in 1..Len(df) |-> df[k].code]

\* A row of the range whose weight cell cannot be converted.
BadWeightBetween(g) ==
    \E i \in (FirstHeader(g) + 1)..(FirstTerminal(g) - 1) :
        Len(g[i]) >= 4 /\ WeightOf(g[i]).raised # ""

\* C8 as stated: for a grid with a header row the result is, in order, the
\* rows strictly between the first header row and the first terminal row
\* after it (to the end of the grid if there is none), all with a 4-digit
\* code; with no header row the extraction fails.
C8_RowsBetweenHeaderAndTerminal ==
    pc # "parse_current" =>
        LET g == current_excel_content.val IN
        IF HeaderRows(g) = {}
        THEN ~current_df.ok /\ pc = "done"
        ELSE /\ current_df.ok
             /\ CodesOf(current_df.val) = CodesBetween(g)
             /\ \A k \in 1..Len(current_df.val) : FourDigits(current_df.val[k].code)

\* C8 as amended: the same for a grid of at least 4 columns in whose range
\* every weight cell converts; a narrower grid gives an empty table, and a
\* weight cell that does not convert makes the extraction fail.
C8_RowsBetweenWhenConvertible ==
    pc # "parse_current" =>
        LET g == current_excel_content.val IN
        IF HeaderRows(g) = {}
        THEN ~current_df.ok /\ pc = "done"
        ELSE IF Len(g[1]) < 4
        THEN current_df = Some(<<>>)
        ELSE IF BadWeightBetween(g)
        THEN ~current_df.ok /\ pc = "done"
        ELSE /\ current_df.ok
             /\ pc = "parse_previous"
             /\ CodesOf(current_df.val) = CodesBetween(g)
             /\ \A k \in 1..Len(current_df.val) : FourDigits(current_df.val[k].code)

\* C8 witness: a header row, then holdings, then a terminal row inside the
\* grid, the table holding exactly the rows between.
C8_Witness ==
    /\ pc = "parse_previous"
    /\ current_df.ok
    /\ Len(current_df.val) >= 1
    /\ LET g == current_excel_content.val IN
       /\ FirstHeader(g) = 1
       /\ FirstTerminal(g) = Len(g)
       /\ Len(current_df.val) = Len(g) - 2

-----------------------------------------------------------------------------
BothDownloaded == current_excel_content.ok /\ prev_excel_content.ok

\* parse_pcf_excel raises on the content (no header row, or a cell that
\* does not convert).
Raises(content) == ParsePcfExcel(content.val).raised # ""

ExtractionFails ==
    BothDownloaded /\ (Raises(current_excel_content) \/ Raises(prev_excel_content))

\* Both files parse, and compare_pcf_data raises on the two tables.
ComparisonFails ==
    /\ BothDownloaded
    /\ ~ExtractionFails
    /\ LET cur == ParsePcfExcel(current_excel_content.val).val
           prev == ParsePcfExcel(prev_excel_content.val).val
       IN \A order \in Orderings(AllStockCodes(cur, prev)) :
             ComparePcfData(cur, prev, order).raised # ""

\* save_comparison_result started and did not complete its two writes.
WritingFails == "save" \in steps /\ "summary" \notin steps

\* C11: once both files are downloaded, a failure of extraction (of either
\* file), of comparison or of report writing leaves process without a file
\* path and the run ends with exit code 0; no further fetch is issued, and
\* after an extraction failure no output file exists.  A run ends with exit
\* code 1 exactly when the output directory could not be created, the date
\* argument does not parse, or the fetch of the requested date failed, and
\* with exit code 0 otherwise.
C11_LateFailuresExitZero ==
    /\ BothDownloaded =>
          /\ Len(fetchLog) = attempt + 2
          /\ fetchLog[1].ok /\ fetchLog[Len(fetchLog)].ok
          /\ fetchLog[Len(fetchLog)].got = prev_excel_content
          /\ \A k \in 2..(Len(fetchLog) - 1) : ~fetchLog[k].ok
          /\ exit_code # Some(1)
          /\ pc = "done" => exit_code = Some(0)
          /\ pc \in {"parse_current", "parse_previous", "compare", "save", "done"}
          /\ ExtractionFails =>
                /\ pc \in {"parse_current", "parse_previous", "done"}
                /\ comparison_file = None
                /\ output_file = None
                /\ steps \subseteq {"parse"}
          /\ ComparisonFails =>
                /\ pc \in {"parse_current", "parse_previous", "compare", "done"}
                /\ comparison_file = None
                /\ output_file = None
          /\ WritingFails => pc = "done" /\ comparison_file = None
          /\ comparison_file.ok =>
                /\ pc = "done"
                /\ comparison_file = Some(OutputFilepath(date.val))
                /\ output_file = Some(ColouredSheet(comparison_df.val))
    /\ pc = "done" =>
          /\ exit_code \in {Some(0), Some(1)}
          /\ exit_code = Some(1) <=>
                \/ ~output_dir
                \/ ~date.ok
                \/ Len(fetchLog) = 1 /\ FetchFailed(response.val)

\* C11 witness: the file of the requested date parses, the previous file,
\* found at the second backward attempt, has no header row; the run ended
\* with exit code 0, no path and no output file.
C11_Witness ==
    /\ pc = "done"
    /\ BothDownloaded
    /\ attempt = 1
    /\ ~Raises(current_excel_content)
    /\ ~HasHeader(prev_excel_content.val)
    /\ exit_code = Some(0)
    /\ comparison_file = None
    /\ output_file = None

=============================================================================
